---- MODULE Spec2Model ----
(***************************************************************************)
(* A model of credtools' quality-control module (src/credtools/qc.py):     *)
(* the noise-parameter estimator estimate_s_rss, the conditional           *)
(* predictor kriging_rss, the Dentist-S statistic, the per-locus           *)
(* orchestrator locus_qc and the batch driver loci_qc.                     *)
(*                                                                         *)
(* Floating-point values are modelled as extended rationals: a pair        *)
(* <<n, d>> with d > 0 and gcd(n, d) = 1 is the finite value n/d,          *)
(* <<1, 0>> is +inf, <<-1, 0>> is -inf and <<0, 0>> is NaN, with the       *)
(* IEEE-754 rules numpy applies to them (x/0 = +-inf, 0/0 = NaN,           *)
(* inf*0 = NaN, every comparison with NaN false).  Rounding and the sign   *)
(* of zero are not modelled.                                               *)
(***************************************************************************)
EXTENDS Integers, Sequences, FiniteSets, TLC

\* --------------------------------------------------------------- bounds
\* Largest number of variants of a locus.
MaxVariants == 2
\* How many times a driver repeats a call with the same arguments.
MaxRepeats == 1
\* Resolution of the grid on which the bounded scalar minimiser is modelled.
SGridN == 8
\* Most variants of a locus of the end-to-end scenario of estimate_s_rss.
ScenarioVariants == 5

\* ------------------------------------------------- extended rationals
AbsI(x) == IF x < 0 THEN -x ELSE x

SignI(x) == IF x < 0 THEN -1 ELSE IF x = 0 THEN 0 ELSE 1

RECURSIVE Gcd(_, _)
Gcd(a, b) == IF b = 0 THEN a ELSE Gcd(b, a % b)

\* The extended rational n/d in canonical form.
Norm(n, d) ==
    IF d = 0 THEN <<SignI(n), 0>>
    ELSE LET g == Gcd(AbsI(n), AbsI(d))
             s == SignI(d)
         IN  <<(s * n) \div g, (s * d) \div g>>

Zero == <<0, 1>>
One == <<1, 1>>
Inf == <<1, 0>>
NaN == <<0, 0>>
Int2R(i) == <<i, 1>>

IsNaN(a) == a = NaN
IsInf(a) == a[2] = 0 /\ a[1] # 0
IsFinite(a) == a[2] # 0

Neg(a) == <<-a[1], a[2]>>

Add(a, b) ==
    IF IsNaN(a) \/ IsNaN(b) THEN NaN
    ELSE IF IsInf(a) THEN (IF IsInf(b) /\ b # a THEN NaN ELSE a)
    ELSE IF IsInf(b) THEN b
    ELSE Norm(a[1] * b[2] + b[1] * a[2], a[2] * b[2])

Sub(a, b) == Add(a, Neg(b))

Mul(a, b) == Norm(a[1] * b[1], a[2] * b[2])

\* 1/a: 1/0 = +inf, 1/(+-inf) = 0, 1/NaN = NaN.
Recip(a) ==
    IF a = Zero THEN Inf ELSE Norm(SignI(a[1]) * a[2], AbsI(a[1]))

Div(a, b) == Mul(a, Recip(b))

\* a < b; false when either is NaN.
Lt(a, b) ==
    IF IsNaN(a) \/ IsNaN(b) THEN FALSE
    ELSE IF IsInf(a) THEN a[1] < 0 /\ b # a
    ELSE IF IsInf(b) THEN b[1] > 0
    ELSE a[1] * b[2] < b[1] * a[2]

Le(a, b) == ~IsNaN(a) /\ ~IsNaN(b) /\ ~Lt(b, a)

Sq(a) == Mul(a, a)

IsSquareI(n) == \E r \in 0..n : r * r = n

SqrtI(n) == CHOOSE r \in 0..n : r * r = n

\* Whether sqrt(a) is an extended rational.
HasSqrt(a) ==
    \/ ~IsFinite(a)
    \/ a[1] < 0
    \/ IsSquareI(a[1]) /\ IsSquareI(a[2])

\* np.sqrt: NaN for a negative argument, exact on the squares of rationals.
\* Loci are drawn so that no other argument occurs (see ExactLocus).
Sqrt(a) ==
    IF IsNaN(a) \/ a[1] < 0 THEN NaN
    ELSE IF IsInf(a) THEN Inf
    ELSE <<SqrtI(a[1]), SqrtI(a[2])>>

RECURSIVE SumSeq(_)
SumSeq(s) == IF s = <<>> THEN Zero ELSE Add(Head(s), SumSeq(Tail(s)))

\* np.max of a non-empty array: NaN if any entry is NaN.
RECURSIVE MaxSeq(_)
MaxSeq(s) ==
    IF Len(s) = 1 THEN s[1]
    ELSE LET m == MaxSeq(Tail(s))
         IN  IF IsNaN(s[1]) \/ IsNaN(m) THEN NaN
             ELSE IF Lt(s[1], m) THEN m ELSE s[1]

\* The sequence f with every entry evaluated once.
Tup(f) == f \o <<>>

Reverse(s) == Tup([i \in 1..Len(s) |-> s[Len(s) + 1 - i]])

\* np.sqrt(x) * y.  sqrt(x) * 0 is 0 for every finite x >= 0, whether or not
\* sqrt(x) is rational.
MulSqrt(x, y) ==
    IF y = Zero /\ IsFinite(x) /\ x[1] >= 0 THEN Zero ELSE Mul(Sqrt(x), y)

\* ------------------------------------------------------------ the Locus
\* A Locus is [p, ld, bs, pval, n]: p variants, the p-by-p LD matrix ld (a
\* sequence of rows), the summary statistics bs (per variant the pair
\* <<BETA, SE>>) and pval (the P column), and sample_size n.  The variant
\* with index i has SNPID i.

\* The LD matrices: unit diagonal, correlation r between variants 1 and 2,
\* every other pair uncorrelated.
LdMatrix(p, r) ==
    Tup([i \in 1..p |-> Tup([j \in 1..p |->
        IF i = j THEN One ELSE IF {i, j} = {1, 2} THEN r ELSE Zero])])

Correlations == {Zero, <<1, 2>>, One}

BetaSeValues == {<<0, 1>>, <<-1, 1>>, <<7, 2>>}

SampleSizes == {0, 1, 2, 10}

\* credtools.locus.intersect_sumstat_ld aligns the summary statistics with
\* the LD matrix; the loci of the model are aligned already.
IntersectSumstatLd(locus) == locus

\* z = BETA / SE, NaN replaced by 0 (np.where(np.isnan(z), 0, z)).
ZScores(locus) ==
    Tup([i \in 1..locus.p |->
        LET z == Div(Int2R(locus.bs[i][1]), Int2R(locus.bs[i][2]))
        IN  IF IsNaN(z) THEN Zero ELSE z])

\* sigma2 = (n - 1) / (z**2 + n - 2), per variant.
Sigma2(z, n) == Div(Int2R(n - 1), Add(Sq(z), Int2R(n - 2)))

\* z = np.sqrt(sigma2) * z
TransformZ(zs, n) ==
    Tup([i \in 1..Len(zs) |-> MulSqrt(Sigma2(zs[i], n), zs[i])])

\* The loci on which the variance-stabilising transform is exact.
ExactLocus(locus) ==
    locus.n > 1 =>
        \A i \in 1..locus.p :
            LET z == ZScores(locus)[i]
            IN  z = Zero \/ HasSqrt(Sigma2(z, locus.n))

\* --------------------------------------------------------- get_eigen
\* An eigen-spectrum is [vals, vecs, norm2]: vals[k] is the k-th eigenvalue,
\* and the k-th column of eigvecs is vecs[k] / sqrt(norm2[k]), vecs[k] an
\* integer vector.  Every quantity the code derives from eigvecs is a sum of
\* products of two entries of one column, hence rational.

UnitVec(p, k) == Tup([i \in 1..p |-> IF i = k THEN 1 ELSE 0])

\* The eigenpairs of an LD matrix of the family LdMatrix, unsorted.
EigenPairs(ld) ==
    LET p == Len(ld)
        a == ld[1][1]
        b == IF p >= 2 THEN ld[1][2] ELSE Zero
        first ==
            IF p = 1 \/ b = Zero
            THEN Tup([k \in 1..(IF p = 1 THEN 1 ELSE 2) |->
                    [val |-> ld[k][k], vec |-> UnitVec(p, k), norm2 |-> 1]])
            ELSE << [val |-> Sub(a, b),
                     vec |-> Tup([i \in 1..p |-> IF i = 1 THEN 1 ELSE IF i = 2 THEN -1 ELSE 0]),
                     norm2 |-> 2],
                    [val |-> Add(a, b),
                     vec |-> Tup([i \in 1..p |-> IF i <= 2 THEN 1 ELSE 0]),
                     norm2 |-> 2] >>
        rest == Tup([k \in 1..(IF p >= 2 THEN p - 2 ELSE 0) |->
                    [val |-> ld[k + 2][k + 2], vec |-> UnitVec(p, k + 2), norm2 |-> 1]])
    IN  first \o rest

RECURSIVE InsertPair(_, _)
InsertPair(e, s) ==
    IF s = <<>> THEN <<e>>
    ELSE IF Lt(e.val, Head(s).val) THEN <<e>> \o s
    ELSE <<Head(s)>> \o InsertPair(e, Tail(s))

RECURSIVE SortPairs(_)
SortPairs(s) ==
    IF s = <<>> THEN <<>>
    ELSE InsertPair(s[Len(s)], SortPairs(SubSeq(s, 1, Len(s) - 1)))

\* np.linalg.eigh: eigenvalues in ascending order with their eigenvectors.
GetEigen(ld) ==
    LET e == SortPairs(EigenPairs(ld))
    IN  [vals |-> Tup([k \in 1..Len(e) |-> e[k].val]),
         vecs |-> Tup([k \in 1..Len(e) |-> e[k].vec]),
         norm2 |-> Tup([k \in 1..Len(e) |-> e[k].norm2])]

\* ld @ v = val * v for every eigenpair, and the eigenvalues ascend.
IsEigenDecomposition(ld, eig) ==
    /\ \A k \in 1..Len(ld) : \A i \in 1..Len(ld) :
          SumSeq([j \in 1..Len(ld) |-> Mul(ld[i][j], Int2R(eig.vecs[k][j]))])
              = Mul(eig.vals[k], Int2R(eig.vecs[k][i]))
    /\ \A k \in 1..(Len(ld) - 1) : Le(eig.vals[k], eig.vals[k + 1])

\* Clamp with the comparison eigvals <= r_tol.
ClampAtOrBelow(vals, r_tol) ==
    Tup([k \in 1..Len(vals) |-> IF Le(vals[k], r_tol) THEN Zero ELSE vals[k]])

\* Clamp of the negative entries only.
ClampNegative(vals, r_tol) ==
    Tup([k \in 1..Len(vals) |-> IF Lt(vals[k], Zero) THEN Zero ELSE vals[k]])

\* eigvals[eigvals < r_tol] = 0
Clamp(vals, r_tol) ==
    Tup([k \in 1..Len(vals) |-> IF Lt(vals[k], r_tol) THEN Zero ELSE vals[k]])

\* (eigvecs.T @ z)[k] ** 2
Proj2(eig, z, k) ==
    Div(Sq(SumSeq([i \in 1..Len(z) |-> Mul(Int2R(eig.vecs[k][i]), z[i])])),
        Int2R(eig.norm2[k]))

\* ((eigvecs.T @ z)[k]) ** 2 for z = np.sqrt(sigma2) * zs.  When every
\* transformed z-score is finite, a column of eigvecs with a single
\* non-zero entry, at variant i, gives sigma2[i] * zs[i] ** 2, which is
\* rational whether or not sqrt(sigma2[i]) is; in every other case the
\* column is projected on the transformed z-scores.
Proj2OfTransformed(eig, zs, n, k) ==
    LET support == {i \in 1..Len(zs) : eig.vecs[k][i] # 0}
        finite == \A j \in 1..Len(zs) :
                     /\ IsFinite(zs[j])
                     /\ IsFinite(Sigma2(zs[j], n))
                     /\ Sigma2(zs[j], n)[1] >= 0
    IN  IF Cardinality(support) = 1 /\ finite
        THEN LET i == CHOOSE j \in support : TRUE
             IN  Mul(Sigma2(zs[i], n), Sq(zs[i]))
        ELSE Proj2(eig, TransformZ(zs, n), k)

\* eigvens = None
NoEigvens == [vals |-> <<>>, vecs |-> <<>>, norm2 |-> <<>>]

ResolveEigvensRecompute(eigvens, ld) ==
    [eig |-> GetEigen(ld), get_eigen_calls |-> 1]

\* if eigvens is not None: use its arrays; else: eigens = get_eigen(ld.r).
\* The result holds the spectrum worked on and how often get_eigen ran.
ResolveEigvens(eigvens, ld) ==
    IF eigvens # NoEigvens
    THEN [eig |-> eigvens, get_eigen_calls |-> 0]
    ELSE [eig |-> GetEigen(ld), get_eigen_calls |-> 1]

\* ------------------------------------------------------ estimate_s_rss
Methods == {"null-mle", "null-partialmle", "null-pseudomle", "null-other"}

\* r_tol = 1e-8, the default of estimate_s_rss and of kriging_rss.
DefaultRTolInverse == 100000000
DefaultRTol == <<1, DefaultRTolInverse>>

\* r_tol = 1e-3, the default of locus_qc.
LocusQcRTolInverse == 1000
LocusQcRTol == <<1, LocusQcRTolInverse>>

\* The grid of (0, 1) on which scipy's bounded minimiser is modelled: the
\* minimiser evaluates its objective at interior points only and returns
\* one of them.
SGrid == {Norm(k, SGridN) : k \in 1..(SGridN - 1)}

\* denom = (1 - s) * d + s
Denom(s, d) == Add(Mul(Sub(One, s), d), s)

\* d/ds negloglikelihood(s, ztv, d), with q = ztv ** 2:
\*   0.5 * sum((1 - d) / denom) - 0.5 * sum(q * (1 - d) / denom ** 2).
NegLogLikSlope(s, q, vals) ==
    Mul(<<1, 2>>,
        SumSeq([k \in 1..Len(vals) |->
            Div(Mul(Sub(One, vals[k]), Sub(Denom(s, vals[k]), q[k])),
                Sq(Denom(s, vals[k])))]))

\* The point 0.5 * (3 - sqrt(5)) = 0.381966... at which the bounded minimiser
\* starts, to the resolution of the grid.
GoldenStart ==
    LET k == (381966 * SGridN + 500000) \div 1000000
    IN  Norm(IF k < 1 THEN 1 ELSE k, SGridN)

\* minimize_scalar(negloglikelihood, bounds=(0, 1), method="bounded") to the
\* resolution of the grid.  The search moves right while the objective does
\* not increase (it accepts a step when fu <= fx) and so ends at the first
\* grid point where the slope is positive, or at the last grid point when
\* there is none; it never leaves its starting point when the objective is
\* NaN (fu <= fx is then false at every step).
MinimizeNegLogLik(q, vals) ==
    LET up == {k \in 1..(SGridN - 1) :
                  Lt(Zero, NegLogLikSlope(Norm(k, SGridN), q, vals))}
    IN  IF \E k \in 1..(SGridN - 1) :
              IsNaN(NegLogLikSlope(Norm(k, SGridN), q, vals))
        THEN GoldenStart
        ELSE IF up = {} THEN Norm(SGridN - 1, SGridN)
        ELSE Norm(CHOOSE k \in up : \A j \in up : k <= j, SGridN)

\* colspace = np.where(eigvals > 0)[0]
Colspace(vals) == {k \in 1..Len(vals) : Lt(Zero, vals[k])}

RECURSIVE SumOver(_, _)
SumOver(f, S) ==
    IF S = {} THEN Zero
    ELSE LET k == CHOOSE x \in S : \A y \in S : x <= y
         IN  Add(f[k], SumOver(f, S \ {k}))

\* PartialMle with the projection taken on colspace itself (the mask not
\* negated).
PartialMleOnColspace(q, vals) ==
    IF Colspace(vals) = 1..Len(vals) THEN Zero
    ELSE Div(SumOver(q, Colspace(vals)), Int2R(Cardinality(Colspace(vals))))

\* The null-partialmle branch: 0 when no eigenvalue is outside colspace,
\* else np.sum(znull ** 2) / len(znull).
PartialMle(q, vals) ==
    LET null == (1..Len(vals)) \ Colspace(vals)
    IN  IF null = {} THEN Zero
        ELSE Div(SumOver(q, null), Int2R(Cardinality(null)))

\* The sample-size check with n < 1.
InvalidSampleSizeBelowOne(n) == n < 1

\* if n <= 1: raise ValueError("n must be greater than 1")
InvalidSampleSize(n) == n <= 1

\* The method dispatch with an unknown name falling back to the default.
MethodBranchDefaulting(method) ==
    IF method \in {"null-mle", "null-partialmle", "null-pseudomle"}
    THEN method ELSE "null-mle"

\* The branch of the if / elif chain on method that is taken.
MethodBranch(method) ==
    IF method \in {"null-mle", "null-partialmle", "null-pseudomle"}
    THEN method ELSE "else"

\* estimate_s_rss(locus, r_tol, method, eigvens) on the eigen-spectrum eig
\* (the caller's object, or a fresh get_eigen(ld) when eigvens is None).
\* pick is the point at which the bounded minimiser of the pseudo-likelihood
\* ends.  The result is [err, s, eig]: the exception raised ("none" if
\* none), the value returned and eig as the call leaves it.
EstimateSRss(locus, r_tol, method, eig, pick) ==
    LET input_locus == IntersectSumstatLd(locus)
        n == input_locus.n
        vals == Clamp(eig.vals, r_tol)
        after == [eig EXCEPT !.vals = vals]
        q == Tup([k \in 1..Len(vals) |->
                Proj2OfTransformed(eig, ZScores(input_locus), n, k)])
    IN  IF InvalidSampleSize(n)
        THEN [err |-> "n must be greater than 1", s |-> NaN, eig |-> after]
        ELSE IF MethodBranch(method) = "null-mle"
        THEN [err |-> "none", s |-> MinimizeNegLogLik(q, vals), eig |-> after]
        ELSE IF MethodBranch(method) = "null-partialmle"
        THEN [err |-> "none", s |-> PartialMle(q, vals), eig |-> after]
        ELSE IF MethodBranch(method) = "null-pseudomle"
        THEN [err |-> "none", s |-> pick, eig |-> after]
        ELSE [err |-> "The method is not implemented", s |-> NaN, eig |-> after]

\* --------------------------------------------------------- kriging_rss
\* s = None
NoneS == <<"None">>

\* dinv = 1 / ((1 - s) * eigvals + s); dinv[np.isinf(dinv)] = 0
Dinv(s, vals) ==
    Tup([k \in 1..Len(vals) |->
        LET d == Recip(Denom(s, vals[k]))
        IN  IF IsInf(d) THEN Zero ELSE d])

\* precision = eigvecs @ (eigvecs * dinv).T
Precision(eig, dinv) ==
    LET p == Len(eig.vals)
    IN  Tup([i \in 1..p |-> Tup([j \in 1..p |->
            SumSeq([k \in 1..p |->
                Div(Mul(Int2R(eig.vecs[k][i]),
                        Mul(Int2R(eig.vecs[k][j]), dinv[k])),
                    Int2R(eig.norm2[k]))])])])

\* row[lo:hi].dot(z[lo:hi]), over the indices lo..hi
Dot(row, z, lo, hi) ==
    SumSeq([j \in 1..(IF hi >= lo THEN hi - lo + 1 ELSE 0) |->
                Mul(row[lo + j - 1], z[lo + j - 1])])

\* The conditional mean with the variant's own z-score left in the dot
\* product.
CondMeanFullRow(prec, z, i) ==
    Mul(Neg(Recip(prec[i][i])), Dot(prec[i], z, 1, Len(z)))

\* condmean[i] = -(1 / precision[i, i]) * precision[i, :i].dot(z[:i])
\*               - (1 / precision[i, i]) * precision[i, i + 1:].dot(z[i + 1:])
CondMean(prec, z, i) ==
    Sub(Mul(Neg(Recip(prec[i][i])), Dot(prec[i], z, 1, i - 1)),
        Mul(Recip(prec[i][i]), Dot(prec[i], z, i + 1, Len(z))))

\* condvar[i] = 1 / precision[i, i]
CondVar(prec, i) == Recip(prec[i][i])

\* z_std_diff ** 2, with z_std_diff = (z - condmean) / np.sqrt(condvar)
ZStdDiff2(z, condmean, condvar) ==
    IF Lt(condvar, Zero) THEN NaN
    ELSE Div(Sq(Sub(z, condmean)), condvar)

\* ceil(log2(2 / 0.8) / log2(1.05)): the least value of
\* int(np.ceil(np.log2(a_max / a_min) / np.log2(1.05))), a_max being at
\* least 2.
MinGridPoints == 19

\* npoint = min(npoint, len(z) - 1), for loci of at most MinGridPoints + 1
\* variants.
NPoint(p) == IF p - 1 < MinGridPoints THEN p - 1 ELSE MinGridPoints

\* The grid without the cap of npoint at len(z) - 1.
AGridPointsUncapped(p) == MinGridPoints + 1

\* len(a_grid) for a_grid = 1.05 ** np.arange(-npoint, 1) * a_max: the
\* exponents -npoint, ..., 0.
AGridPoints(p) == NPoint(p) + 1

\* The exception of int(np.ceil(...)) on a_max, which is NaN or infinite
\* exactly when np.max(z_std_diff ** 2) is.
GridError(zsd2) ==
    LET m == MaxSeq(zsd2)
    IN  IF IsNaN(m) THEN "cannot convert float NaN to integer"
        ELSE IF IsInf(m) THEN "cannot convert float infinity to integer"
        ELSE "none"

\* GaussianMixture(n_components).fit(X) validates X: at least 2 samples,
\* and no fewer samples than components.
GmmFitError(n_samples, n_components) ==
    IF n_samples < 2 THEN "GaussianMixture needs at least 2 samples"
    ELSE IF n_samples < n_components THEN "GaussianMixture needs n_samples >= n_components"
    ELSE "none"

\* The precision matrix kriging_rss forms from the eigen-spectrum eig (in
\* ascending order, as get_eigen returns it) after reversing and clamping.
KrigingPrecision(r_tol, s, eig) ==
    LET rev == [vals |-> Clamp(Reverse(eig.vals), r_tol),
                vecs |-> Reverse(eig.vecs),
                norm2 |-> Reverse(eig.norm2)]
    IN  Precision(rev, Dinv(s, rev.vals))

NoTable == [rows |-> 0, z |-> <<>>, condmean |-> <<>>, condvar |-> <<>>, zsd2 |-> <<>>]

\* kriging_rss(locus, r_tol, s, eigvens) on the eigen-spectrum eig (the
\* caller's object, or a fresh get_eigen(ld) when eigvens is None).  The
\* result is [err, s, eig, table, a_grid]: the exception raised ("none" if
\* none), the s used, eig as the call leaves it, the table returned: one row
\* per variant with z, condmean, condvar and the square of z_std_diff (logLR,
\* which depends on the fitted mixture weights, is left out), and the number
\* of points of a_grid (0 when the call ends before the grid is made).
KrigingRss(locus, r_tol, s, eig) ==
    LET input_locus == IntersectSumstatLd(locus)
        n == input_locus.n
        p == input_locus.p
        est == IF s = NoneS
               THEN EstimateSRss(locus, DefaultRTol, "null-mle", eig, NaN)
               ELSE [err |-> "none", s |-> s, eig |-> eig]
        \* eigvals[::-1] is a view: the clamp writes to the caller's array
        after == [est.eig EXCEPT !.vals = Clamp(est.eig.vals, r_tol)]
        z == TransformZ(ZScores(input_locus), n)
        prec == KrigingPrecision(r_tol, est.s, est.eig)
        condmean == Tup([i \in 1..p |-> CondMean(prec, z, i)])
        condvar == Tup([i \in 1..p |-> CondVar(prec, i)])
        zsd2 == Tup([i \in 1..p |-> ZStdDiff2(z[i], condmean[i], condvar[i])])
        a_grid == AGridPoints(p)
        table == [rows |-> p, z |-> z, condmean |-> condmean,
                  condvar |-> condvar, zsd2 |-> zsd2]
    IN  IF est.err # "none"
        THEN [err |-> est.err, s |-> s, eig |-> est.eig, table |-> NoTable,
              a_grid |-> 0]
        ELSE IF InvalidSampleSize(n)
        THEN [err |-> "n must be greater than 1", s |-> est.s, eig |-> after,
              table |-> NoTable, a_grid |-> 0]
        ELSE IF GridError(zsd2) # "none"
        THEN [err |-> GridError(zsd2), s |-> est.s, eig |-> after,
              table |-> NoTable, a_grid |-> 0]
        ELSE IF GmmFitError(p, a_grid) # "none"
        THEN [err |-> GmmFitError(p, a_grid), s |-> est.s, eig |-> after,
              table |-> NoTable, a_grid |-> a_grid]
        ELSE [err |-> "none", s |-> est.s, eig |-> after, table |-> table,
              a_grid |-> a_grid]

\* How often get_eigen runs in kriging_rss(locus, r_tol, s, eigvens): in
\* its own branch on eigvens, and in estimate_s_rss, which is handed the
\* arrays as eigvens when s is None.
KrigingGetEigenCalls(eigvens, s, ld) ==
    ResolveEigvens(eigvens, ld).get_eigen_calls
        + (IF s = NoneS
           THEN ResolveEigvens(ResolveEigvens(eigvens, ld).eig, ld).get_eigen_calls
           ELSE 0)

\* --------------------------------------------------- compute_dentist_s
\* The last index holding the least p-value.
LeadIdxLast(pval) ==
    CHOOSE i \in 1..Len(pval) :
        /\ \A j \in 1..Len(pval) : Le(pval[i], pval[j])
        /\ \A j \in (i + 1)..Len(pval) : Lt(pval[i], pval[j])

\* df[ColName.P].idxmin(): the first index holding the least p-value.
LeadIdx(pval) ==
    CHOOSE i \in 1..Len(pval) :
        /\ \A j \in 1..Len(pval) : Le(pval[i], pval[j])
        /\ \A j \in 1..(i - 1) : Lt(pval[i], pval[j])

\* (Z - r * lead_z) ** 2 / (1 - r ** 2), negative values replaced by inf
DentistT(z, r, lead_z) ==
    LET t == Div(Sq(Sub(z, Mul(r, lead_z))), Sub(One, Sq(r)))
    IN  IF Lt(t, Zero) THEN Inf ELSE t

\* compute_dentist_s(locus): the lead variant and the column t_dentist_s
\* (p_dentist_s = chi2.logsf(t_dentist_s, 1) is left out).
ComputeDentistS(locus) ==
    LET input_locus == IntersectSumstatLd(locus)
        z == Tup([i \in 1..input_locus.p |->
                Div(Int2R(input_locus.bs[i][1]), Int2R(input_locus.bs[i][2]))])
        lead_idx == LeadIdx(input_locus.pval)
        r == input_locus.ld[lead_idx]
    IN  [lead |-> lead_idx,
         z |-> z,
         t_dentist_s |-> Tup([i \in 1..input_locus.p |->
            IF i = lead_idx THEN NaN ELSE DentistT(z[i], r[i], z[lead_idx])])]

\* -------------------------------------------------------------- state
VARIABLES
    \* calls on a single locus
    locus,     \* the Locus the calls are made on
    eigens,    \* the eigen-spectrum object the caller passes as eigvens
    last,      \* the last call: [op, args, res]
    reps,      \* how many times the last call has been repeated
    \* locus_qc
    lset,      \* the LocusSet: a sequence of [num, af2, cohort]
    qc,        \* the last locus_qc call: [args, res]
    \* loci_qc
    loci_info, \* the input table: a sequence of [locus_id, data]
    threads,   \* the size of the worker pool
    task,      \* task[g]: where the task of locus group g is
    outcome,   \* outcome[g]: what qc_locus_cli does on locus group g
    outq,      \* results the workers have posted, in completion order
    progress,  \* how often the progress bar has advanced
    parent,    \* "iterating", "raised" or "returned"
    written,   \* the files on disk: <<locus_id, metric>>
    \* io_in_tempdir
    level,     \* logger.getEffectiveLevel()
    disk,      \* [dirs, files]: the directories and the files <<dir, file>>
    wrapper    \* the wrapper's call: [pc, temp_dir, calls, fresh, exit_level, rmtree]

numVars == <<locus, eigens, last, reps>>
qcVars == <<lset, qc>>
poolVars == <<loci_info, threads, task, outcome, outq, progress, parent, written>>
tmpVars == <<level, disk, wrapper>>

RTolValues == {DefaultRTol, <<1, 2>>, One, <<3, 1>>}

SValues == {Zero, <<1, 2>>, One}

PValues == {<<1, 100>>, <<1, 2>>}

ConstPval(p) == {Tup([i \in 1..p |-> <<1, 2>>])}

AnyPval(p) == [1..p -> PValues]

\* The loci, with equal p-values or with any.
LociWith(any_pval, sizes) ==
    UNION {
        { [p |-> p, ld |-> LdMatrix(p, r), bs |-> bs, pval |-> pv, n |-> n] :
            r \in (IF p = 1 THEN {Zero} ELSE Correlations),
            bs \in [1..p -> BetaSeValues],
            pv \in (IF any_pval THEN AnyPval(p) ELSE ConstPval(p)),
            n \in sizes }
        : p \in 1..MaxVariants }

NoCall == [op |-> "none", args |-> <<>>, res |-> <<>>]

\* A driver makes one call on a fresh locus and repeats it with the same
\* arguments.
FirstOrRepeat(op, args) ==
    \/ last.op = "none"
    \/ last.op = op /\ last.args = args /\ reps < MaxRepeats

Record(op, args, res) ==
    /\ last' = [op |-> op, args |-> args, res |-> res]
    /\ reps' = IF last.op = "none" THEN 0 ELSE reps + 1
    /\ locus' = locus
    /\ UNCHANGED <<qcVars, poolVars, tmpVars>>

EstimateArgs(r_tol, method, supplied, pick) ==
    [r_tol |-> r_tol, method |-> method, supplied |-> supplied, pick |-> pick]

EstimateCall(r_tol, method, supplied, pick) ==
    /\ FirstOrRepeat("estimate_s_rss", EstimateArgs(r_tol, method, supplied, pick))
    /\ \E eigvens \in {IF supplied THEN eigens ELSE NoEigvens} :
       \E res \in {EstimateSRss(locus, r_tol, method,
                        ResolveEigvens(eigvens, locus.ld).eig, pick)} :
          /\ eigens' = IF supplied THEN res.eig ELSE eigens
          /\ Record("estimate_s_rss", EstimateArgs(r_tol, method, supplied, pick),
                    [err |-> res.err, s |-> res.s,
                     get_eigen_calls |->
                        ResolveEigvens(eigvens, locus.ld).get_eigen_calls])

KrigingCall(r_tol, s, supplied) ==
    /\ FirstOrRepeat("kriging_rss", [r_tol |-> r_tol, s |-> s, supplied |-> supplied])
    /\ \E eigvens \in {IF supplied THEN eigens ELSE NoEigvens} :
       \E res \in {KrigingRss(locus, r_tol, s,
                        ResolveEigvens(eigvens, locus.ld).eig)} :
          /\ eigens' = IF supplied THEN res.eig ELSE eigens
          /\ Record("kriging_rss", [r_tol |-> r_tol, s |-> s, supplied |-> supplied],
                    [err |-> res.err, s |-> res.s, table |-> res.table,
                     a_grid |-> res.a_grid,
                     get_eigen_calls |->
                        KrigingGetEigenCalls(eigvens, s, locus.ld)])

DentistCall ==
    /\ FirstOrRepeat("compute_dentist_s", <<>>)
    /\ eigens' = eigens
    /\ Record("compute_dentist_s", <<>>, ComputeDentistS(locus))

InitNum(any_pval, sizes) ==
    /\ locus \in {l \in LociWith(any_pval, sizes) : ExactLocus(l)}
    /\ eigens = GetEigen(locus.ld)
    /\ last = NoCall
    /\ reps = 0

NextEst ==
    \E r_tol \in RTolValues, method \in Methods, supplied \in BOOLEAN :
        \E pick \in (IF method = "null-pseudomle" THEN SGrid ELSE {NaN}) :
            EstimateCall(r_tol, method, supplied, pick)

NextKrig ==
    \E r_tol \in RTolValues, s \in SValues \cup {NoneS}, supplied \in BOOLEAN :
        KrigingCall(r_tol, s, supplied)

NextDentist == DentistCall

\* ------------------------------------------------------------ locus_qc
MaxLoci == 2

\* f"{locus.popu}_{locus.cohort}" of the i-th cohort
CohortName(i) == "cohort_" \o ToString(i)

QcVariantCounts == {1, 2}

QcSampleSizes == {1, 10}

\* The loci a LocusSet is drawn from: one or two variants with z-score 1 and
\* correlation 1/2, a valid or an invalid sample size, an LD map with or
\* without the AF2 column.
QcLoci ==
    { [num |-> [p |-> p,
                ld |-> LdMatrix(p, IF p = 1 THEN Zero ELSE <<1, 2>>),
                bs |-> Tup([i \in 1..p |-> <<1, 1>>]),
                pval |-> Tup([i \in 1..p |-> <<1, 2>>]),
                n |-> n],
       af2 |-> af2] :
        p \in QcVariantCounts, n \in QcSampleSizes, af2 \in BOOLEAN }

LocusSets ==
    UNION { { Tup([i \in 1..k |-> [num |-> f[i].num, af2 |-> f[i].af2,
                                   cohort |-> CohortName(i)]]) :
                f \in [1..k -> QcLoci] } : k \in 1..MaxLoci }

Table(cols, index, rows) == [cols |-> cols, index |-> index, rows |-> rows]

EmptyTable == Table({}, "none", 0)

\* compare_maf without the test on the AF2 column.
CompareMafUnguarded(l) ==
    Table({"MAF_sumstats", "MAF_ld", "SNPID"}, "none", l.num.p)

\* compare_maf(locus): an empty DataFrame when the LD map has no AF2 column
CompareMaf(l) ==
    IF ~l.af2 THEN EmptyTable
    ELSE Table({"MAF_sumstats", "MAF_ld", "SNPID"}, "none", l.num.p)

\* The tables one pass of the loop over locus_set.loci appends, each with
\* its cohort column.
LocusTables(l, est, krig) ==
    [err |-> "none",
     lambda_s |-> est.s,
     expected_z |-> Table({"SNPID", "z", "condmean", "condvar",
                           "z_std_diff", "logLR", "lambda_s", "cohort"},
                          "none", krig.table.rows),
     dentist_s |-> Table({"SNPID", "t_dentist_s", "p_dentist_s", "cohort"},
                         "none", Len(ComputeDentistS(l.num).t_dentist_s)),
     compare_maf |-> Table(CompareMaf(l).cols \cup {"cohort"}, "none",
                           CompareMaf(l).rows)]

\* One pass of the loop over locus_set.loci: the decomposition, the
\* estimate, the kriging table and the per-locus tables; err is the
\* exception the pass raises, if any.
LocusPass(l, r_tol, method, pick) ==
    CHOOSE pass \in
        { IF est.err # "none"
          THEN [err |-> est.err,
                get_eigen_calls |->
                    1 + ResolveEigvens(eigens0, l.num.ld).get_eigen_calls]
          ELSE CHOOSE kriged \in
                  { (IF krig.err # "none" THEN [err |-> krig.err]
                     ELSE LocusTables(l, est, krig))
                    @@ [get_eigen_calls |->
                          1 + ResolveEigvens(eigens0, l.num.ld).get_eigen_calls
                            + KrigingGetEigenCalls(est.eig, est.s, l.num.ld)] :
                      krig \in {KrigingRss(l.num, r_tol, est.s,
                                    ResolveEigvens(est.eig, l.num.ld).eig)} } : TRUE :
            eigens0 \in {GetEigen(IntersectSumstatLd(l.num).ld)},
            est \in {EstimateSRss(l.num, r_tol, method,
                        ResolveEigvens(GetEigen(IntersectSumstatLd(l.num).ld),
                                       l.num.ld).eig, pick)} } :
        TRUE

\* pd.concat(frames, axis=0): the union of the columns, the rows of all
Concat0(frames) ==
    Table(UNION {frames[i].cols : i \in 1..Len(frames)}, "none",
          SumSeq(Tup([i \in 1..Len(frames) |-> Int2R(frames[i].rows)]))[1])

RECURSIVE MinP(_, _)
\* the number of variants every locus of the set shares
MinP(ls, k) ==
    IF k = 1 THEN ls[1].num.p
    ELSE LET m == MinP(ls, k - 1)
         IN  IF ls[k].num.p < m THEN ls[k].num.p ELSE m

CohortCols(ls) == {ls[i].cohort : i \in 1..Len(ls)}

Ld4thMoment(ls) == Table(CohortCols(ls), "SNPID", MinP(ls, Len(ls)))

LdDecay(ls) ==
    Table({"distance_kb", "r2_avg", "decay_rate", "cohort"}, "none", Len(ls))

CochranQ(ls) == Table({"Q", "Q_pvalue", "I_squared"}, "SNPID", MinP(ls, Len(ls)))

SnpMissingness(ls) == Table(CohortCols(ls), "SNPID", ls[1].num.p)

PerLocusKeys == {"expected_z", "dentist_s", "compare_maf"}

SetKeys == {"ld_4th_moment", "ld_decay"}

MultiCohortKeys == {"cochran_q", "snp_missingness"}

MultiCohortFromOne(ls) == Len(ls) >= 1

\* len(locus_set.loci) > 1
MultiCohort(ls) == Len(ls) > 1

MetricKeys(ls) ==
    PerLocusKeys \cup SetKeys \cup (IF MultiCohort(ls) THEN MultiCohortKeys ELSE {})

NoOutDir == "None"

OutDirs == {NoOutDir, "qc_out"}

NoMetrics == [k \in {} |-> EmptyTable]

\* metric_data.to_csv(f"{out_dir}/{metric_name}.txt", sep="\t", index=False):
\* the columns written to each file; the index is not written.
WrittenFilesAlways(metrics, out_dir) ==
    [k \in DOMAIN metrics |-> metrics[k].cols]

WrittenFiles(metrics, out_dir) ==
    IF out_dir = NoOutDir THEN NoMetrics
    ELSE [k \in DOMAIN metrics |-> metrics[k].cols]

\* f"{out_dir}/{metric_name}.txt"
MetricPath(out_dir, metric_name) == out_dir \o "/" \o metric_name \o ".txt"

\* os.makedirs(out_dir, exist_ok=True), run only when out_dir is given
MadeDirs(out_dir) == IF out_dir = NoOutDir THEN {} ELSE {out_dir}

\* qc_metrics, from the per-locus tables of the passes
QcMetrics(ls, pass) ==
    [k \in MetricKeys(ls) |->
        CASE k = "expected_z" ->
                Concat0(Tup([i \in 1..Len(ls) |-> pass[i].expected_z]))
          [] k = "dentist_s" ->
                Concat0(Tup([i \in 1..Len(ls) |-> pass[i].dentist_s]))
          [] k = "compare_maf" ->
                Concat0(Tup([i \in 1..Len(ls) |-> pass[i].compare_maf]))
          [] k = "ld_4th_moment" -> Ld4thMoment(ls)
          [] k = "ld_decay" -> LdDecay(ls)
          [] k = "cochran_q" -> CochranQ(ls)
          [] k = "snp_missingness" -> SnpMissingness(ls)]

\* What locus_qc ends with, failed being the passes that raise: the
\* exception of the first of them, or the metrics returned and the files
\* written.
QcResult(ls, out_dir, pass, failed) ==
    IF failed # {}
    THEN LET first == CHOOSE i \in failed : \A j \in failed : i <= j
         IN  [err |-> pass[first].err, returned |-> FALSE, metrics |-> NoMetrics,
              files |-> NoMetrics, paths |-> {}, dirs |-> {},
              locus_set |-> ls,
              get_eigen_calls |-> SumSeq(Tup([i \in 1..first |->
                                    Int2R(pass[i].get_eigen_calls)]))[1]]
    ELSE CHOOSE res \in
            { [err |-> "none", returned |-> TRUE, metrics |-> metrics,
               files |-> files,
               paths |-> {MetricPath(out_dir, k) : k \in DOMAIN files},
               dirs |-> MadeDirs(out_dir),
               locus_set |-> ls,
               get_eigen_calls |-> SumSeq(Tup([i \in 1..Len(ls) |->
                                    Int2R(pass[i].get_eigen_calls)]))[1]] :
                metrics \in {QcMetrics(ls, pass)},
                files \in {WrittenFiles(QcMetrics(ls, pass), out_dir)} } : TRUE

\* locus_qc(locus_set, r_tol, method, out_dir) with picks[i] the point the
\* bounded minimiser of null-pseudomle ends at on the i-th locus.
LocusQc(ls, r_tol, method, out_dir, picks) ==
    CHOOSE res \in
        { QcResult(ls, out_dir, pass, {i \in 1..Len(ls) : pass[i].err # "none"}) :
            pass \in {Tup([i \in 1..Len(ls) |->
                        LocusPass(ls[i], r_tol, method, picks[i])])} } : TRUE

NoQc == [args |-> <<>>, res |-> <<>>]

QcRTolValues == {LocusQcRTol, One}

\* Where the bounded minimiser may end on a locus: either end of the grid.
QcPicks == {Norm(1, SGridN), Norm(SGridN - 1, SGridN)}

LocusQcCall(r_tol, method, out_dir, picks) ==
    /\ qc = NoQc
    /\ lset # <<>>
    /\ \E res \in {LocusQc(lset, r_tol, method, out_dir, picks)} :
          /\ qc' = [args |-> [locus_set |-> lset, r_tol |-> r_tol,
                              method |-> method, out_dir |-> out_dir,
                              picks |-> picks],
                    res |-> res]
          /\ lset' = res.locus_set
    /\ UNCHANGED <<numVars, poolVars, tmpVars>>

InitQc ==
    /\ lset \in LocusSets
    /\ qc = NoQc

\* A LocusSet of one locus, of any LD matrix and any z-scores of the model.
InitQcLocus ==
    /\ lset \in { <<[num |-> l, af2 |-> TRUE, cohort |-> CohortName(1)]>> :
                    l \in {m \in LociWith(FALSE, {10}) : ExactLocus(m)} }
    /\ qc = NoQc

NextQc ==
    \E r_tol \in QcRTolValues, method \in Methods, out_dir \in OutDirs :
        \E picks \in (IF method = "null-pseudomle"
                      THEN {Tup(f) : f \in [1..Len(lset) -> QcPicks]}
                      ELSE {Tup([i \in 1..Len(lset) |-> NaN])}) :
            LocusQcCall(r_tol, method, out_dir, picks)

\* ------------------------------------------------------------- loci_qc
MaxRows == 2
MaxLocusIds == 2
MaxThreads == 2

LocusIds == 1..MaxLocusIds

\* What a row of the table points at: a two-variant locus whose sample
\* size is valid or not.
RowLoci == {l \in QcLoci : l.num.p = 2 /\ l.af2}

\* The tables pd.read_csv may return, the table without rows included.
InputTables ==
    UNION { { Tup(f) : f \in [1..k -> [locus_id : LocusIds, data : RowLoci]] } :
            k \in 0..MaxRows }

\* The group of the first row alone.
LocusGroupsFirstRow(table) ==
    IF table = <<>> THEN {} ELSE {table[1].locus_id}

\* loci_info.groupby("locus_id"): one group per distinct locus_id
LocusGroups(table) == {table[i].locus_id : i \in 1..Len(table)}

LocusInfo(table, g) == SelectSeq(table, LAMBDA row : row.locus_id = g)

\* load_locus_set(locus_info): one locus per row of the group
LoadLocusSet(info) ==
    Tup([i \in 1..Len(info) |-> [num |-> info[i].data.num, af2 |-> info[i].data.af2,
                                 cohort |-> CohortName(i)]])

\* qc_locus_cli writing every metric straight under base_out_dir.
QcLocusCliFlat(g, info) ==
    CHOOSE out \in
        { [err |-> res.err, files |-> {<<0, k>> : k \in DOMAIN res.metrics}] :
            res \in {LocusQc(LoadLocusSet(info), LocusQcRTol, "null-mle", NoOutDir,
                             Tup([i \in 1..Len(info) |-> NaN]))} } : TRUE

\* qc_locus_cli((locus_id, locus_info, base_out_dir)): locus_qc with its
\* defaults, then one file per metric under {base_out_dir}/{locus_id}/.
QcLocusCli(g, info) ==
    CHOOSE out \in
        { [err |-> res.err, files |-> {<<g, k>> : k \in DOMAIN res.metrics}] :
            res \in {LocusQc(LoadLocusSet(info), LocusQcRTol, "null-mle", NoOutDir,
                             Tup([i \in 1..Len(info) |-> NaN]))} } : TRUE

Running == {g \in DOMAIN task : task[g] = "running"}

\* A free worker of the pool takes the next queued task.
WorkerStart(g) ==
    /\ parent = "iterating"
    /\ task[g] = "queued"
    /\ Cardinality(Running) < threads
    /\ task' = [task EXCEPT ![g] = "running"]
    /\ UNCHANGED <<loci_info, threads, outcome, outq, progress, parent, written>>
    /\ UNCHANGED <<numVars, qcVars, tmpVars>>

\* The worker runs qc_locus_cli to its end and posts the outcome.
WorkerFinish(g) ==
    /\ parent = "iterating"
    /\ task[g] = "running"
    /\ \E res \in {outcome[g]} :
          /\ task' = [task EXCEPT ![g] = IF res.err = "none" THEN "done" ELSE "failed"]
          /\ written' = written \cup res.files
          /\ outq' = Append(outq, [locus_id |-> g, err |-> res.err])
    /\ UNCHANGED <<loci_info, threads, outcome, progress, parent>>
    /\ UNCHANGED <<numVars, qcVars, tmpVars>>

\* Pool.__exit__: terminate() stops the workers; tasks queued or running
\* are dropped.
Terminate(tasks) ==
    [g \in DOMAIN tasks |->
        IF tasks[g] \in {"queued", "running"} THEN "killed" ELSE tasks[g]]

\* The parent's loop over pool.imap_unordered: the next result either
\* advances the progress bar or re-raises the worker's exception, which
\* leaves the with-block.
ParentNext ==
    /\ parent = "iterating"
    /\ outq # <<>>
    /\ outq' = Tail(outq)
    /\ IF Head(outq).err = "none"
       THEN /\ progress' = progress + 1
            /\ parent' = IF progress + 1 = Cardinality(DOMAIN task)
                         THEN "returned" ELSE "iterating"
            /\ task' = task
       ELSE /\ progress' = progress
            /\ parent' = "raised"
            /\ task' = Terminate(task)
    /\ UNCHANGED <<loci_info, threads, outcome, written>>
    /\ UNCHANGED <<numVars, qcVars, tmpVars>>

\* The loop over pool.imap_unordered of no task ends at once.
ParentExhausted ==
    /\ parent = "iterating"
    /\ DOMAIN task = {}
    /\ parent' = "returned"
    /\ UNCHANGED <<loci_info, threads, task, outcome, outq, progress, written>>
    /\ UNCHANGED <<numVars, qcVars, tmpVars>>

InitPool ==
    /\ loci_info \in InputTables
    /\ threads \in 1..MaxThreads
    /\ task = [g \in LocusGroups(loci_info) |-> "queued"]
    /\ outcome = [g \in LocusGroups(loci_info) |->
                     QcLocusCli(g, LocusInfo(loci_info, g))]
    /\ outq = <<>>
    /\ progress = 0
    /\ parent = "iterating"
    /\ written = {}

NextPool ==
    \/ \E g \in DOMAIN task : WorkerStart(g)
    \/ \E g \in DOMAIN task : WorkerFinish(g)
    \/ ParentNext
    \/ ParentExhausted

\* -------------------------------------------------------- io_in_tempdir
\* Calls of the wrapper a driver makes one after the other.
MaxCalls == 2
\* Names tempfile.mkdtemp draws the directory's name from.
MaxTempNames == 3
\* Files the decorated function writes to temp_dir.
MaxFiles == 1

\* logging.INFO (the level at and above which temp_dir is removed)
INFO == 20

\* The effective levels of the logger: DEBUG, INFO, WARNING.
Levels == {10, INFO, 30}

\* dir, the parent of the temporary directories
ParentDir == 0

NoWrapper ==
    [pc |-> "idle", temp_dir |-> ParentDir, calls |-> 0, fresh |-> FALSE,
     exit_level |-> 0, rmtree |-> "none"]

\* wrapper, up to the call of func: dir is made if it does not exist, and
\* tempfile.mkdtemp(dir=dir) makes a directory of a name not in use.
WrapperEnter ==
    /\ wrapper.pc # "running"
    /\ wrapper.calls < MaxCalls
    /\ \E temp_dir \in (1..MaxTempNames) \ disk.dirs :
          /\ disk' = [disk EXCEPT !.dirs = @ \cup {ParentDir, temp_dir}]
          /\ wrapper' = [pc |-> "running", temp_dir |-> temp_dir,
                         calls |-> wrapper.calls + 1,
                         fresh |-> /\ temp_dir \notin disk.dirs
                                   /\ \A f \in disk.files : f[1] # temp_dir,
                         exit_level |-> 0, rmtree |-> "none"]
    /\ level' = level
    /\ UNCHANGED <<numVars, qcVars, poolVars>>

\* func(*args, temp_dir=temp_dir, **kwargs) writes a file to temp_dir
FuncWrite ==
    /\ wrapper.pc = "running"
    /\ \E f \in 1..MaxFiles :
          /\ <<wrapper.temp_dir, f>> \notin disk.files
          /\ disk' = [disk EXCEPT !.files = @ \cup {<<wrapper.temp_dir, f>>}]
    /\ UNCHANGED <<level, wrapper>>
    /\ UNCHANGED <<numVars, qcVars, poolVars>>

\* The level of the logger is set, by func or between two calls.
SetLevel(l) ==
    /\ l # level
    /\ wrapper.pc # "idle"
    /\ level' = l
    /\ UNCHANGED <<disk, wrapper>>
    /\ UNCHANGED <<numVars, qcVars, poolVars>>

\* func returns, the else branch: at INFO or above shutil.rmtree(temp_dir),
\* which removes the directory or raises (rm_ok false), the exception being
\* logged and dropped; below INFO the directory is kept.
FuncReturn(rm_ok) ==
    /\ wrapper.pc = "running"
    /\ level < INFO => rm_ok
    /\ disk' = IF level >= INFO /\ rm_ok
               THEN [dirs |-> disk.dirs \ {wrapper.temp_dir},
                     files |-> {f \in disk.files : f[1] # wrapper.temp_dir}]
               ELSE disk
    /\ wrapper' = [wrapper EXCEPT !.pc = "returned", !.exit_level = level,
                      !.rmtree = IF level < INFO THEN "skipped"
                                 ELSE IF rm_ok THEN "done" ELSE "failed"]
    /\ level' = level
    /\ UNCHANGED <<numVars, qcVars, poolVars>>

\* func raises, the except branch: the error is logged and raised again.
FuncRaise ==
    /\ wrapper.pc = "running"
    /\ wrapper' = [wrapper EXCEPT !.pc = "raised", !.exit_level = level]
    /\ UNCHANGED <<level, disk>>
    /\ UNCHANGED <<numVars, qcVars, poolVars>>

\* Before the first call: dir may exist, with a directory of an earlier run.
InitTmp ==
    /\ level \in Levels
    /\ disk \in {[dirs |-> {}, files |-> {}],
                 [dirs |-> {ParentDir}, files |-> {}],
                 [dirs |-> {ParentDir, 1}, files |-> {<<1, 1>>}]}
    /\ wrapper = NoWrapper

NextTmp ==
    \/ WrapperEnter
    \/ FuncWrite
    \/ \E l \in Levels : SetLevel(l)
    \/ \E rm_ok \in BOOLEAN : FuncReturn(rm_ok)
    \/ FuncRaise

\* ------------------------------------------------------- specifications
IdleNum ==
    /\ locus = [p |-> 0, ld |-> <<>>, bs |-> <<>>, pval |-> <<>>, n |-> 0]
    /\ eigens = [vals |-> <<>>, vecs |-> <<>>, norm2 |-> <<>>]
    /\ last = NoCall
    /\ reps = 0

IdleQc ==
    /\ lset = <<>>
    /\ qc = NoQc

IdlePool ==
    /\ loci_info = <<>>
    /\ threads = 1
    /\ task = <<>>
    /\ outcome = <<>>
    /\ outq = <<>>
    /\ progress = 0
    /\ parent = "returned"
    /\ written = {}

IdleTmp ==
    /\ level = INFO
    /\ disk = [dirs |-> {}, files |-> {}]
    /\ wrapper = NoWrapper

vars == <<numVars, qcVars, poolVars, tmpVars>>

InitEst == InitNum(FALSE, SampleSizes) /\ IdleQc /\ IdlePool /\ IdleTmp
InitKrig == InitNum(FALSE, SampleSizes) /\ IdleQc /\ IdlePool /\ IdleTmp
\* compute_dentist_s does not read sample_size
InitDentist == InitNum(TRUE, {10}) /\ IdleQc /\ IdlePool /\ IdleTmp
InitLocusQc == IdleNum /\ InitQc /\ IdlePool /\ IdleTmp
InitLociQc == IdleNum /\ IdleQc /\ InitPool /\ IdleTmp
InitTempdir == IdleNum /\ IdleQc /\ IdlePool /\ InitTmp

\* The end-to-end scenario of estimate_s_rss: loci of up to ScenarioVariants
\* variants with the identity for LD matrix, BETA/SE 2 or 0 and a sample
\* size of 10 or 1000.
UncorrelatedLoci ==
    UNION {
        { [p |-> p, ld |-> LdMatrix(p, Zero), bs |-> bs, pval |-> pv, n |-> n] :
            bs \in [1..p -> {<<2, 1>>, <<0, 1>>}],
            pv \in ConstPval(p),
            n \in {10, 1000} }
        : p \in 1..ScenarioVariants }

InitScenario ==
    /\ locus \in UncorrelatedLoci
    /\ eigens = GetEigen(locus.ld)
    /\ last = NoCall
    /\ reps = 0
    /\ IdleQc
    /\ IdlePool
    /\ IdleTmp

NextCalls == NextEst \/ NextKrig
NextKrigQc == (locus.p >= 1 /\ NextKrig) \/ NextQc

SpecEst == InitEst /\ [][NextEst]_vars
\* a Locus of sample size 0, 1 or 2 before estimate_s_rss or kriging_rss
InitCalls == InitNum(FALSE, {0, 1, 2}) /\ IdleQc /\ IdlePool /\ IdleTmp
SpecCalls == InitCalls /\ [][NextCalls]_vars
SpecScenario == InitScenario /\ [][NextEst]_vars
SpecKrig == InitKrig /\ [][NextKrig]_vars
SpecDentist == InitDentist /\ [][NextDentist]_vars
SpecQc == InitLocusQc /\ [][NextQc]_vars
InitOneLocusQc == IdleNum /\ InitQcLocus /\ IdlePool /\ IdleTmp
SpecQcLocus == InitOneLocusQc /\ [][NextQc]_vars
\* a Locus of a valid or an invalid sample size, or a LocusSet
InitKrigQc ==
    \/ InitNum(FALSE, {1, 10}) /\ IdleQc /\ IdlePool /\ IdleTmp
    \/ InitLocusQc
SpecKrigQc == InitKrigQc /\ [][NextKrigQc]_vars
SpecPool == InitLociQc /\ [][NextPool]_vars
\* The workers of the pool run and the parent's loop takes what they post.
SpecPoolFair == SpecPool /\ WF_vars(NextPool)
SpecTempdir == InitTempdir /\ [][NextTmp]_vars

\* ================================================================ claims
LastIs(op) == last.op = op

\* The eigenvalues of the locus's LD matrix, as get_eigen returns them.
LdEigvals == GetEigen(locus.ld).vals

\* The eigenvalues a call on the current locus works with after clamping at
\* r_tol: those of the caller's object, or of a fresh decomposition.
WorkingVals(supplied, r_tol) ==
    Clamp(IF supplied THEN eigens.vals ELSE LdEigvals, r_tol)

MeanSeq(s) == Div(SumSeq(s), Int2R(Len(s)))

\* ------------------------------------------------------------------ C1
\* C1: on a locus with sample_size <= 1, estimate_s_rss (any method, eigvens
\* given or not) and kriging_rss (any s, eigvens given or not) raise
\* ValueError("n must be greater than 1") and return nothing.
C1_InvalidSampleSize ==
    (locus.n <= 1 /\ (LastIs("estimate_s_rss") \/ LastIs("kriging_rss"))) =>
        /\ last.res.err = "n must be greater than 1"
        /\ LastIs("estimate_s_rss") => last.res.s = NaN
        /\ LastIs("kriging_rss") => last.res.table = NoTable

C1_Witness ==
    /\ locus.n = 1
    /\ LastIs("kriging_rss")
    /\ last.args.s = NoneS
    /\ last.res.err = "n must be greater than 1"

\* ------------------------------------------------------------------ C2
\* C2: with sample_size > 1, estimate_s_rss with a method other than
\* null-mle, null-partialmle and null-pseudomle raises
\* ValueError("The method is not implemented") and returns no s.
C2_UnsupportedMethod ==
    (/\ LastIs("estimate_s_rss")
     /\ locus.n > 1
     /\ last.args.method \notin {"null-mle", "null-partialmle", "null-pseudomle"}) =>
        /\ last.res.err = "The method is not implemented"
        /\ last.res.s = NaN

C2_Witness ==
    /\ LastIs("estimate_s_rss")
    /\ locus.n > 1
    /\ last.args.method = "null-other"
    /\ last.res.err = "The method is not implemented"

\* ------------------------------------------------------------------ C7
AllClamp(r_tol) == \A k \in 1..locus.p : Lt(LdEigvals[k], r_tol)

DegenerateCall ==
    /\ LastIs("estimate_s_rss")
    /\ last.args.method = "null-partialmle"
    /\ locus.n > 1
    /\ AllClamp(last.args.r_tol)

FiniteZ ==
    \A i \in 1..locus.p : IsFinite(TransformZ(ZScores(locus), locus.n)[i])

\* C7 as stated: when every eigenvalue of the LD matrix clamps to zero,
\* estimate_s_rss with null-partialmle returns s = 0 and raises nothing, for
\* every z (here: every z whose transform is finite).
C7_Original ==
    (DegenerateCall /\ FiniteZ) => (last.res.err = "none" /\ last.res.s = Zero)

\* C7 as amended: when every eigenvalue clamps to zero, null-partialmle
\* raises nothing and returns the mean of the squared transformed z-scores.
C7_Amended ==
    DegenerateCall =>
        /\ last.res.err = "none"
        /\ last.res.s = MeanSeq([i \in 1..locus.p |->
                            Sq(TransformZ(ZScores(locus), locus.n)[i])])

C7_Witness ==
    /\ DegenerateCall
    /\ last.res.err = "none"
    /\ Lt(Zero, last.res.s)

\* ------------------------------------------------------------------ C9
PartialMleCall ==
    /\ LastIs("estimate_s_rss")
    /\ last.args.method = "null-partialmle"
    /\ locus.n > 1

\* The mean of the squared projections of the transformed z onto the
\* eigenvectors of the LD matrix whose index is in null; 0 if there is none.
MeanProj2(null) ==
    LET eig == GetEigen(locus.ld)
        z == TransformZ(ZScores(locus), locus.n)
    IN  IF null = {} THEN Zero
        ELSE Div(SumOver([k \in 1..locus.p |-> Proj2(eig, z, k)], null),
                 Int2R(Cardinality(null)))

\* C9 as stated: null-partialmle returns exactly 0 when every eigenvalue is
\* above r_tol, and otherwise the mean squared projection of the
\* transformed z onto exactly the eigenvectors with eigenvalue <= r_tol
\* (here on loci whose transformed z-scores are finite).
C9_Original ==
    (PartialMleCall /\ FiniteZ) =>
        last.res.s = MeanProj2({k \in 1..locus.p :
                                    Le(LdEigvals[k], last.args.r_tol)})

\* C9 as amended: the eigenvectors projected on are exactly those whose
\* eigenvalue is below r_tol or not positive; an eigenvalue equal to a
\* positive r_tol is kept, and s is exactly 0 when none is below.
C9_Amended ==
    PartialMleCall =>
        last.res.s = MeanProj2({k \in 1..locus.p :
                                    \/ Lt(LdEigvals[k], last.args.r_tol)
                                    \/ ~Lt(Zero, LdEigvals[k])})

C9_Witness ==
    /\ PartialMleCall
    /\ \E k \in 1..locus.p : LdEigvals[k] = last.args.r_tol
    /\ last.res.s = Zero
    /\ Lt(Zero, MeanProj2({k \in 1..locus.p : Le(LdEigvals[k], last.args.r_tol)}))

\* ------------------------------------------------------------------ C4
\* C4: two successive calls of kriging_rss with the same Locus, the same
\* r_tol and the same eigen-spectrum object return the same condmean and
\* condvar, for every r_tol and with s given or estimated.
C4_Idempotent ==
    [][(/\ LastIs("kriging_rss")
        /\ last'.op = "kriging_rss"
        /\ last'.args = last.args
        /\ last.args.supplied
        /\ last.res.err = "none"
        /\ last'.res.err = "none") =>
           /\ last'.res.table.condmean = last.res.table.condmean
           /\ last'.res.table.condvar = last.res.table.condvar]_vars

\* ------------------------------------------------------------------ C5
\* C5: condmean[i] returned by kriging_rss does not depend on the z-score
\* of variant i: on a locus that differs only in variant i's BETA and SE,
\* with the same LD matrix, sample size, eigen-spectrum and s, condmean[i]
\* is the same.
C5_LeaveOneOut ==
    (LastIs("kriging_rss") /\ last.res.err = "none") =>
        LET prec == KrigingPrecision(last.args.r_tol, last.res.s,
                        IF last.args.supplied THEN eigens ELSE GetEigen(locus.ld))
        IN  \A i \in 1..locus.p : \A b \in BetaSeValues :
                LET other == [locus EXCEPT !.bs[i] = b]
                IN  ExactLocus(other) =>
                        CondMean(prec, TransformZ(ZScores(other), other.n), i)
                            = last.res.table.condmean[i]

C5_Witness ==
    /\ LastIs("kriging_rss")
    /\ last.res.err = "none"
    /\ locus.p >= 2
    /\ \E i \in 1..locus.p :
          /\ Lt(Zero, last.res.table.condmean[i])
          /\ last.res.table.z[i] # Zero

\* ------------------------------------------------------------------ C8
\* A singular case: some regularised eigenvalue (1 - s) * lambda + s is
\* zero, so that 1 / ((1 - s) * lambda + s) is infinite.
SingularCall ==
    /\ LastIs("kriging_rss")
    /\ locus.n > 1
    /\ locus.p >= 2
    /\ FiniteZ
    /\ last.args.s \in SValues
    /\ \E k \in 1..locus.p :
          Denom(last.args.s,
                WorkingVals(last.args.supplied, last.args.r_tol)[k]) = Zero

\* C8: kriging_rss raises nothing in a numerically singular case: with
\* sample_size > 1 and s in [0, 1] the call completes with a table of one
\* row per variant (here on loci of two or more variants whose transformed
\* z-scores are finite, so that the singular spectrum is the only
\* irregularity).
C8_NoSingularException ==
    SingularCall => (last.res.err = "none" /\ last.res.table.rows = locus.p)

\* ------------------------------------------------------------------ C6
\* C6: in compute_dentist_s every variant j other than the lead with
\* r[j, lead] = 1 and the same z-score as the lead gets t_dentist_s = 0.
C6_PerfectLdZero ==
    LastIs("compute_dentist_s") =>
        \A j \in 1..locus.p :
            (/\ j # last.res.lead
             /\ locus.ld[j][last.res.lead] = One
             /\ last.res.z[j] = last.res.z[last.res.lead]) =>
                last.res.t_dentist_s[j] = Zero

\* ----------------------------------------------------------------- C10
QcReturned == qc # NoQc /\ qc.res.returned

\* C10: the result locus_qc returns has the keys 'cochran_q' and
\* 'snp_missingness' exactly when the LocusSet holds more than one locus,
\* and always has 'expected_z', 'dentist_s', 'compare_maf', 'ld_4th_moment'
\* and 'ld_decay'.
C10_ResultKeys ==
    QcReturned =>
        /\ ({"cochran_q", "snp_missingness"} \subseteq DOMAIN qc.res.metrics)
              <=> (Len(lset) > 1)
        /\ ("cochran_q" \in DOMAIN qc.res.metrics)
              <=> ("snp_missingness" \in DOMAIN qc.res.metrics)
        /\ {"expected_z", "dentist_s", "compare_maf", "ld_4th_moment", "ld_decay"}
              \subseteq DOMAIN qc.res.metrics

\* locus_qc has returned the result of a LocusSet of two loci, with both
\* multi-cohort keys.
C10_Witness ==
    /\ QcReturned
    /\ Len(lset) = 2
    /\ "cochran_q" \in DOMAIN qc.res.metrics
    /\ "snp_missingness" \in DOMAIN qc.res.metrics

\* ------------------------------------------------------------------ C3
\* C3: once loci_qc is over and the worker of one locus group has failed,
\* every other locus group has been processed to its end: its task is done
\* (or has failed itself) and, when done, its output files are written.
C3_SiblingsComplete ==
    (parent # "iterating" /\ \E g \in DOMAIN task : task[g] = "failed") =>
        \A h \in DOMAIN task :
            /\ task[h] \in {"done", "failed"}
            /\ task[h] = "done" => <<h, "expected_z">> \in written

\* ----------------------------------------------------------------- C11
\* C11: locus_qc writes files only when out_dir is given, and then exactly
\* one file '<out_dir>/<metric_name>.txt' per key of the mapping it
\* returns; with out_dir None it makes no directory and writes no file; the
\* LocusSet it was given is unchanged after the call.
C11_FilesOnlyWithOutDir ==
    qc # NoQc =>
        /\ qc.args.out_dir = NoOutDir =>
              (qc.res.paths = {} /\ qc.res.dirs = {} /\ DOMAIN qc.res.files = {})
        /\ (qc.res.returned /\ qc.args.out_dir # NoOutDir) =>
              /\ qc.res.paths = {qc.args.out_dir \o "/" \o k \o ".txt" :
                                    k \in DOMAIN qc.res.metrics}
              /\ Cardinality(qc.res.paths) = Cardinality(DOMAIN qc.res.metrics)
              /\ DOMAIN qc.res.files = DOMAIN qc.res.metrics
        /\ ~qc.res.returned => qc.res.paths = {}
        /\ lset = qc.args.locus_set

\* locus_qc has returned for a two-locus set with out_dir given, and wrote
\* the file of cochran_q among others.
C11_Witness ==
    /\ QcReturned
    /\ qc.args.out_dir = "qc_out"
    /\ "qc_out/cochran_q.txt" \in qc.res.paths
    /\ Cardinality(qc.res.paths) = 7

\* ----------------------------------------------------------------- C12
\* C12: every file locus_qc writes holds the variant identifier (SNPID) of
\* each row and the cohort label among its written columns (here: the
\* files of ld_4th_moment, cochran_q and snp_missingness, with the cohort
\* label either a column 'cohort' or the cohorts' names as column heads).
C12_FilesKeyed ==
    (QcReturned /\ qc.args.out_dir # NoOutDir) =>
        \A k \in DOMAIN qc.res.files \cap
                    {"ld_4th_moment", "cochran_q", "snp_missingness"} :
            /\ "SNPID" \in qc.res.files[k]
            /\ \/ "cohort" \in qc.res.files[k]
               \/ {lset[i].cohort : i \in 1..Len(lset)} \subseteq qc.res.files[k]

\* ----------------------------------------------------------------- C13
\* C13: a kriging_rss call that is given an eigen-spectrum never runs
\* get_eigen, with s given or left to estimate_s_rss; and a locus_qc call
\* that returns has run get_eigen exactly once per locus.
C13_NoRecompute ==
    /\ (LastIs("kriging_rss") /\ last.args.supplied) =>
            last.res.get_eigen_calls = 0
    /\ QcReturned => qc.res.get_eigen_calls = Len(lset)

\* kriging_rss has completed on a supplied eigen-spectrum with s estimated
\* inside the call.
C13_Witness ==
    /\ LastIs("kriging_rss")
    /\ last.args.supplied
    /\ last.args.s = NoneS
    /\ last.res.err = "none"
    /\ last.res.get_eigen_calls = 0

\* ----------------------------------------------------------------- C14
\* C14: an estimate_s_rss call changes nothing of what it was given but
\* the supplied eigenvalues: the locus and the eigenvectors are the same
\* after the call, every eigenvalue at or above r_tol is the same, every
\* eigenvalue below r_tol is zero; so it is when the call returns and when
\* it raises. A call without eigvens leaves the caller's spectrum alone.
C14_OnlyClamps ==
    [][last'.op = "estimate_s_rss" =>
        /\ locus' = locus
        /\ eigens'.vecs = eigens.vecs
        /\ eigens'.norm2 = eigens.norm2
        /\ Len(eigens'.vals) = Len(eigens.vals)
        /\ \A k \in 1..Len(eigens.vals) :
              eigens'.vals[k] =
                 IF last'.args.supplied /\ Lt(eigens.vals[k], last'.args.r_tol)
                 THEN Zero ELSE eigens.vals[k]]_vars

\* estimate_s_rss raised on the sample size after it had set a supplied
\* eigenvalue below r_tol to zero, and left one at or above r_tol.
C14_Witness ==
    /\ LastIs("estimate_s_rss")
    /\ last.args.supplied
    /\ last.res.err = "n must be greater than 1"
    /\ \E k \in 1..Len(eigens.vals) :
          eigens.vals[k] = Zero /\ LdEigvals[k] # Zero
    /\ \E k \in 1..Len(eigens.vals) :
          eigens.vals[k] # Zero /\ eigens.vals[k] = LdEigvals[k]

\* ----------------------------------------------------------------- C15
\* The LocusSet of the call with the AF2 column present in every LD map.
WithAf2 == Tup([i \in 1..Len(lset) |-> [lset[i] EXCEPT !.af2 = TRUE]])

\* C15: for a locus whose LD map has no AF2 column compare_maf returns the
\* empty table, and the missing column changes nothing else of locus_qc:
\* the call ends as it does with the column present (it returns, or raises
\* the same exception), and when it returns, every table but compare_maf
\* is the one returned with the column present, while compare_maf holds
\* the rows of the loci that have the column, and the cohort column.
C15_MissingAf2 ==
    (qc # NoQc /\ \E i \in 1..Len(lset) : ~lset[i].af2) =>
        \A ref \in {LocusQc(WithAf2, qc.args.r_tol, qc.args.method,
                             qc.args.out_dir, qc.args.picks)} :
            /\ \A i \in 1..Len(lset) :
                  ~lset[i].af2 => CompareMaf(lset[i]) = EmptyTable
            /\ qc.res.err = ref.err
            /\ qc.res.returned = ref.returned
            /\ qc.res.returned =>
                  /\ DOMAIN qc.res.metrics = DOMAIN ref.metrics
                  /\ \A k \in DOMAIN ref.metrics \ {"compare_maf"} :
                        qc.res.metrics[k] = ref.metrics[k]
                  /\ "cohort" \in qc.res.metrics["compare_maf"].cols
                  /\ qc.res.metrics["compare_maf"].rows =
                        SumSeq(Tup([i \in 1..Len(lset) |->
                            Int2R(IF lset[i].af2 THEN lset[i].num.p ELSE 0)]))[1]

\* locus_qc has returned the tables of two loci, the first without the AF2
\* column, and compare_maf holds the rows of the second only.
C15_Witness ==
    /\ QcReturned
    /\ Len(lset) = 2
    /\ ~lset[1].af2
    /\ lset[2].af2
    /\ qc.res.metrics["compare_maf"].rows = lset[2].num.p
    /\ "expected_z" \in DOMAIN qc.res.metrics

\* ----------------------------------------------------------------- C16
\* C16: the lead of compute_dentist_s holds the least p-value and no
\* variant before it holds the same; the lead's t_dentist_s is
\* not-a-number; and the t_dentist_s of every other variant j is the value
\* of the statistic computed with r the LD entry between j and the lead,
\* not overwritten.
C16_LeadVariant ==
    LastIs("compute_dentist_s") =>
        /\ last.res.lead \in 1..locus.p
        /\ \A j \in 1..locus.p : Le(locus.pval[last.res.lead], locus.pval[j])
        /\ \A j \in 1..(last.res.lead - 1) :
              locus.pval[j] # locus.pval[last.res.lead]
        /\ IsNaN(last.res.t_dentist_s[last.res.lead])
        /\ \A j \in (1..locus.p) \ {last.res.lead} :
              last.res.t_dentist_s[j] =
                 DentistT(last.res.z[j], locus.ld[j][last.res.lead],
                          last.res.z[last.res.lead])

\* compute_dentist_s has run on two variants of equal p-value and distinct
\* z-scores: the first is the lead and the second has a number for t.
C16_Witness ==
    /\ LastIs("compute_dentist_s")
    /\ locus.p = 2
    /\ locus.pval[1] = locus.pval[2]
    /\ last.res.lead = 1
    /\ last.res.z[1] # last.res.z[2]
    /\ IsNaN(last.res.t_dentist_s[1])
    /\ IsFinite(last.res.t_dentist_s[2])

\* ----------------------------------------------------------------- C17
\* C17: on a locus of 5 variants with the identity for LD matrix, n = 1000
\* and every BETA/SE equal to 2, estimate_s_rss with method 'null-mle' and
\* the default r_tol returns s near 0: in the lower half of (0, 1).
C17_IdentityNearZero ==
    (/\ LastIs("estimate_s_rss")
     /\ last.args.method = "null-mle"
     /\ last.args.r_tol = DefaultRTol
     /\ locus.p = 5
     /\ locus.n = 1000
     /\ locus.ld = LdMatrix(5, Zero)
     /\ \A i \in 1..locus.p : locus.bs[i] = <<2, 1>>) =>
        (last.res.err = "none" /\ Lt(last.res.s, <<1, 2>>))

\* ----------------------------------------------------------------- C18
\* C18: the function decorated with io_in_tempdir runs with temp_dir a
\* directory that exists and was made for this call; and once the
\* function's execution has ended, by a return or by an exception, temp_dir
\* is gone when the logger's effective level is INFO or above and is kept
\* when it is below (a call whose shutil.rmtree itself failed is left out).
C18_TempDirLifecycle ==
    /\ wrapper.pc = "running" =>
          (wrapper.fresh /\ wrapper.temp_dir \in disk.dirs)
    /\ (wrapper.pc \in {"returned", "raised"} /\ wrapper.rmtree # "failed") =>
          /\ wrapper.exit_level >= INFO => wrapper.temp_dir \notin disk.dirs
          /\ wrapper.exit_level < INFO => wrapper.temp_dir \in disk.dirs

\* ----------------------------------------------------------------- C19
\* C19 as stated: whenever kriging_rss has made its grid, a_grid has at
\* most (variant count - 1) points.
C19_Original ==
    (LastIs("kriging_rss") /\ last.res.a_grid > 0) =>
        last.res.a_grid <= locus.p - 1

\* C19 amended: npoint is at most (variant count - 1) and a_grid has
\* npoint + 1 points, so a_grid has at most as many points as the locus has
\* variants; it has exactly as many on a locus of no more than
\* MinGridPoints + 1 variants.
C19_Amended ==
    (LastIs("kriging_rss") /\ last.res.a_grid > 0) =>
        /\ last.res.a_grid - 1 <= locus.p - 1
        /\ last.res.a_grid <= locus.p
        /\ locus.p <= MinGridPoints + 1 => last.res.a_grid = locus.p

\* kriging_rss has completed on two variants with a grid of two points.
C19_Witness ==
    /\ LastIs("kriging_rss")
    /\ last.res.err = "none"
    /\ locus.p = 2
    /\ last.res.a_grid = 2
    /\ last.res.table.rows = 2

\* ----------------------------------------------------------------- C20
\* C20: kriging_rss on a locus of a single variant with sample_size > 1
\* (here with the default r_tol, s given in [0, 1] and a finite z-score)
\* raises nothing: its grid has exactly one point (npoint = 0) and the call
\* returns a table of one row.
C20_SingleVariant ==
    (/\ LastIs("kriging_rss")
     /\ locus.p = 1
     /\ locus.n > 1
     /\ FiniteZ
     /\ last.args.r_tol = DefaultRTol
     /\ last.args.s \in SValues) =>
        /\ last.res.err = "none"
        /\ last.res.a_grid = 1
        /\ last.res.table.rows = 1

\* ----------------------------------------------------------------- C21
\* Every locus group of the table is one on which qc_locus_cli succeeds.
AllSucceed == \A g \in DOMAIN outcome : outcome[g].err = "none"

PoolAccounts ==
    /\ DOMAIN task = {loci_info[i].locus_id : i \in 1..Len(loci_info)}
    /\ progress <= Cardinality(DOMAIN task)
    /\ parent = "iterating" =>
          progress + Len(outq) =
              Cardinality({g \in DOMAIN task : task[g] \in {"done", "failed"}})
    /\ parent = "returned" =>
          /\ progress = Cardinality(LocusGroups(loci_info))
          /\ outq = <<>>
          /\ \A g \in DOMAIN task : task[g] = "done"

\* C21: loci_qc has one task per distinct locus_id of the table, every
\* finished task has posted one result, the progress bar has advanced once
\* per result taken, and a call that has returned has advanced it once per
\* locus group; and when qc_locus_cli succeeds on every group the call
\* returns, whatever the order in which the workers end and whatever the
\* size of the pool.
C21_Terminates ==
    /\ []PoolAccounts
    /\ AllSucceed ~> (parent = "returned")

\* loci_qc has returned from a table of two locus groups run on a pool of
\* two workers, the progress bar advanced twice.
C21_Witness ==
    /\ loci_info # <<>>
    /\ parent = "returned"
    /\ threads = 2
    /\ Cardinality(DOMAIN task) = 2
    /\ progress = 2

\* ----------------------------------------------------------------- C22
\* What estimate_s_rss returns in the pass of locus_qc over the i-th locus
\* of the call: s, and the eigen-spectrum as it hands it on to kriging_rss.
PassedOn(i) ==
    EstimateSRss(qc.args.locus_set[i].num, qc.args.r_tol, qc.args.method,
                 GetEigen(IntersectSumstatLd(qc.args.locus_set[i].num).ld),
                 qc.args.picks[i])

\* C22: in a call of locus_qc, with any of the three methods, the s that
\* estimate_s_rss returns for a locus makes every regularised eigenvalue
\* (1 - s) * lambda + s of kriging_rss non-negative, every entry of dinv
\* finite and non-negative, and no conditional variance negative.
C22_RegularisedNonNegative ==
    qc # NoQc =>
        \A i \in 1..Len(qc.args.locus_set) : \A est \in {PassedOn(i)} :
            est.err = "none" =>
                /\ \A k \in 1..Len(est.eig.vals) :
                      /\ Le(Zero, Denom(est.s, est.eig.vals[k]))
                      /\ IsFinite(Dinv(est.s, est.eig.vals)[k])
                      /\ Le(Zero, Dinv(est.s, est.eig.vals)[k])
                /\ \A j \in 1..qc.args.locus_set[i].num.p :
                      ~Lt(CondVar(KrigingPrecision(qc.args.r_tol, est.s, est.eig), j),
                          Zero)

\* ----------------------------------------------------------------- C23
\* The files of the tasks that have ended.
FilesOfEnded == UNION {outcome[g].files : g \in {h \in DOMAIN task : task[h] = "done"}}

\* Every file on disk is {base_out_dir}/{locus_id}/{metric}.txt.gz of a task
\* that has ended, under that task's own locus_id, and no two tasks name
\* the same file.
OwnFilesOnly ==
    /\ written = FilesOfEnded
    /\ \A g \in DOMAIN outcome : \A f \in outcome[g].files : f[1] = g
    /\ \A g, h \in DOMAIN outcome :
          g # h => outcome[g].files \cap outcome[h].files = {}

\* A worker that ends writes its files, none of which was written before.
WritesFresh ==
    \A g \in DOMAIN task :
        (task[g] = "running" /\ task'[g] \in {"done", "failed"}) =>
            /\ written' = written \cup outcome[g].files
            /\ outcome[g].files \cap written = {}

\* C23: under every interleaving of the workers of loci_qc no file is
\* written by two workers: a task writes only the files
\* {out_dir}/{locus_id}/{metric}.txt.gz of its own locus_id, and distinct
\* tasks have distinct locus_ids.
C23_NoSharedFile ==
    /\ []OwnFilesOnly
    /\ [][WritesFresh]_vars

\* Two tasks of a pool of two workers have both ended and written files.
C23_Witness ==
    /\ threads = 2
    /\ parent = "iterating"
    /\ \E g, h \in DOMAIN task :
          /\ g # h
          /\ task[g] = "done" /\ task[h] = "done"
          /\ \E f \in written : f[1] = g
          /\ \E f \in written : f[1] = h

\* ----------------------------------------------------------------- C24
\* estimate_s_rss(locus, r_tol, 'null-mle') on a fresh eigen-spectrum of the
\* LD matrix of the locus.
EstimatedApart(r_tol) ==
    EstimateSRss(locus, r_tol, "null-mle", GetEigen(locus.ld), NaN)

\* kriging_rss(locus, r_tol, s) on a fresh eigen-spectrum, s estimated apart
\* with the same r_tol.
KrigingWithEstimate(r_tol) ==
    KrigingRss(locus, r_tol, EstimatedApart(r_tol).s, GetEigen(locus.ld))

\* C24: for every r_tol, kriging_rss with s omitted returns the condmean and
\* condvar of kriging_rss with s = estimate_s_rss(locus, r_tol, 'null-mle')
\* computed with the same r_tol on a fresh eigen-spectrum of the same LD
\* matrix.
C24_OmittedSameAsEstimated ==
    (/\ LastIs("kriging_rss")
     /\ last.args.s = NoneS
     /\ ~last.args.supplied
     /\ last.res.err = "none") =>
        \A ref \in {KrigingWithEstimate(last.args.r_tol)} :
            /\ ref.err = "none"
            /\ ref.table.condmean = last.res.table.condmean
            /\ ref.table.condvar = last.res.table.condvar

====
